---- MODULE Spec2Model ----
(***************************************************************************)
(* InterVis main window (src/src/main_window.py): the handlers of          *)
(* MainWindow as a state machine.  Every handler runs to completion on the *)
(* GUI thread and is one action; the only asynchronous part is the import  *)
(* worker, whose signals are delivered while the modal progress dialog's   *)
(* exec() loop runs.                                                       *)
(*                                                                         *)
(* A handler is an operator from the window's state (a record s) and the   *)
(* answers the user and the collaborators give (a record in) to the state  *)
(* it leaves behind, so that a handler that calls another one is the       *)
(* composition of the two.  s.trace is the sequence of calls the running   *)
(* handler has made on its collaborators (message boxes, handlers, data    *)
(* manager, plot widget), in program order; s.args holds the arguments of  *)
(* the calls whose arguments matter.                                       *)
(*                                                                         *)
(* Collaborators whose code is outside main_window.py (DataManager,        *)
(* ConfigHandler, DataImportWorker, the plot widget) appear as the calls   *)
(* made on them and as the answers they give; the little of their state    *)
(* the handlers read (frame count, variables, store files, dirty flag) is  *)
(* kept as variables.                                                      *)
(*                                                                         *)
(* Spec takes every handler.  WindowSpec and ProjectSpec are the sessions  *)
(* in which the user works with the window (modes, redraws, dialogs,       *)
(* closing) or with the project's data (reload, directory, import,         *)
(* variables); both start with __init__ and the import it may run.         *)
(***************************************************************************)
EXTENDS Integers, Sequences, FiniteSets, TLC

\* Largest frame count of a data store in the model.
MaxFrames == 2

\* self.current_frame_index: set to 0 in __init__; its other writers are in
\* the playback handler.
current_frame_index == 0

\* ------------------------------------------------------------------ text
\* A text is a sequence of one-character strings.
Letters == {"a", "b", "i", "d"}
Digits == {"1"}
Spaces == {" "}

RECURSIVE lstrip(_)
lstrip(t) == IF t # <<>> /\ Head(t) \in Spaces THEN lstrip(Tail(t)) ELSE t

RECURSIVE rstrip(_)
rstrip(t) ==
  IF t # <<>> /\ t[Len(t)] \in Spaces THEN rstrip(SubSeq(t, 1, Len(t) - 1)) ELSE t

\* str.strip()
strip(t) == rstrip(lstrip(t))

\* str.isidentifier()
isidentifier(t) ==
  /\ t # <<>>
  /\ t[1] \in Letters \cup {"_"}
  /\ \A k \in 2..Len(t) : t[k] \in Letters \cup Digits \cup {"_"}

\* What the user may type into the rename dialog.
InputTexts ==
  { <<>>, <<" ">>, <<"a">>, <<"a", " ">>, <<"b">>, <<" ", "b">>,
    <<"1", "b">>, <<"i", "d">> }

\* The columns a freshly imported store has.
CsvColumns == { <<"i", "d">>, <<"a">> }

\* _update_variables_table: the columns that are not shown in the table.
Unmanaged == { <<"i", "d">> }

Dirs == {"d1", "d2"}
Modes == {"instant", "time_avg"}

VARIABLES
  phase,                  \* "new", "ui", "idle", "importing", "closed"
  VIDEO_EXPORT_AVAILABLE, \* module constant, fixed at import time
  mode,                   \* time_analysis_mode_combo.currentText()
  export_vid_btn,         \* export_vid_btn.isEnabled()
  batch_export_btn,       \* batch_export_btn.isEnabled()
  config_is_dirty,        \* config_handler.config_is_dirty
  redraw_timer,           \* redraw_debounce_timer.isActive()
  frame_count,            \* data_manager.get_frame_count()
  variables,              \* data_manager.get_variables()
  table,                  \* names in column 0 of variables_table
  db_file,                \* os.path.exists(data_manager.db_path)
  zarr_dir,               \* os.path.isdir(data_manager.zarr_path)
  project_dir,            \* self.project_dir
  settings,               \* QSettings "project_directory", "" when unset
  timeseries_dialog,      \* "none", "visible", "closed"
  profile_dialog,         \* "none", "visible", "closed"
  import_dialog,          \* import_progress_dialog: "none", "visible", "closed"
  import_worker,          \* the worker thread: "none", "running", "finished", "error"
  event,                  \* the QCloseEvent: "none", "ignored", "accepted"
  trace,                  \* calls made by the last handler, in order
  args,                   \* arguments of the calls of the last handler
  handler,                \* the last handler that ran
  inp                     \* the answers it was given

vars ==
  << phase, VIDEO_EXPORT_AVAILABLE, mode, export_vid_btn, batch_export_btn,
     config_is_dirty, redraw_timer, frame_count, variables, table, db_file,
     zarr_dir, project_dir, settings, timeseries_dialog, profile_dialog,
     import_dialog, import_worker, event, trace, args, handler, inp >>

NoArgs == [avg |-> <<>>, rename |-> <<>>, delete |-> <<>>]

\* The window's state as a record, with the trace of a handler that starts.
Cur ==
  [ phase |-> phase, mode |-> mode, export_vid_btn |-> export_vid_btn,
    batch_export_btn |-> batch_export_btn, config_is_dirty |-> config_is_dirty,
    redraw_timer |-> redraw_timer, frame_count |-> frame_count,
    variables |-> variables, table |-> table, db_file |-> db_file,
    zarr_dir |-> zarr_dir, project_dir |-> project_dir, settings |-> settings,
    timeseries_dialog |-> timeseries_dialog, profile_dialog |-> profile_dialog,
    import_dialog |-> import_dialog, import_worker |-> import_worker,
    event |-> "none", trace |-> <<>>, args |-> NoArgs ]

\* The state a handler h, given the answers i, leaves behind.
Commit(r, h, i) ==
  /\ phase' = r.phase
  /\ mode' = r.mode
  /\ export_vid_btn' = r.export_vid_btn
  /\ batch_export_btn' = r.batch_export_btn
  /\ config_is_dirty' = r.config_is_dirty
  /\ redraw_timer' = r.redraw_timer
  /\ frame_count' = r.frame_count
  /\ variables' = r.variables
  /\ table' = r.table
  /\ db_file' = r.db_file
  /\ zarr_dir' = r.zarr_dir
  /\ project_dir' = r.project_dir
  /\ settings' = r.settings
  /\ timeseries_dialog' = r.timeseries_dialog
  /\ profile_dialog' = r.profile_dialog
  /\ import_dialog' = r.import_dialog
  /\ import_worker' = r.import_worker
  /\ event' = r.event
  /\ trace' = r.trace
  /\ args' = r.args
  /\ handler' = h
  /\ inp' = i
  /\ UNCHANGED VIDEO_EXPORT_AVAILABLE

\* A call on a collaborator.
Call(s, op) == [s EXCEPT !.trace = Append(@, op)]

Called(op) == \E k \in 1..Len(trace) : trace[k] = op

\* The position of the first call of op in the trace, 0 when there is none.
Pos(op) ==
  IF Called(op) THEN CHOOSE k \in 1..Len(trace) :
                        trace[k] = op /\ \A j \in 1..(k - 1) : trace[j] # op
  ELSE 0

\* --------------------------------------------------------------- startup
\* __init__ up to the call of _init_ui: the widgets as setup_ui leaves them
\* are not known, so every combination is a start state.
Init ==
  /\ phase = "new"
  /\ VIDEO_EXPORT_AVAILABLE \in BOOLEAN
  /\ mode \in Modes
  /\ export_vid_btn \in BOOLEAN
  /\ batch_export_btn \in BOOLEAN
  /\ config_is_dirty = FALSE
  /\ redraw_timer = FALSE
  /\ \E store \in BOOLEAN :
       /\ db_file = store
       /\ zarr_dir = store
  /\ frame_count = 0
  /\ variables = {}
  /\ table = {}
  /\ project_dir = "d1"
  /\ settings = ""
  /\ timeseries_dialog = "none"
  /\ profile_dialog = "none"
  /\ import_dialog = "none"
  /\ import_worker = "none"
  /\ event = "none"
  /\ trace = <<>>
  /\ args = NoArgs
  /\ handler = "__init__"
  /\ inp = [none |-> TRUE]

\* _trigger_auto_apply; loading is config_handler._is_loading_config.
_trigger_auto_apply(s, loading) ==
  IF loading THEN s
  ELSE LET d == [Call(s, "mark_config_as_dirty") EXCEPT !.config_is_dirty = TRUE]
       IN IF d.frame_count > 0 THEN [d EXCEPT !.redraw_timer = TRUE] ELSE d

\* _on_vector_plot_type_changed
_on_vector_plot_type_changed(s, loading) == _trigger_auto_apply(s, loading)

\* _on_time_analysis_mode_changed without the test of VIDEO_EXPORT_AVAILABLE.
ModeChangedUnguarded(s, loading) ==
  LET is_time_avg == s.mode = "time_avg"
      a == Call(s, IF is_time_avg THEN "playback.set_enabled(False)"
                   ELSE "playback.set_enabled(True)")
      b == [a EXCEPT !.export_vid_btn = ~is_time_avg, !.batch_export_btn = TRUE]
  IN _trigger_auto_apply(b, loading)

\* _on_time_analysis_mode_changed
_on_time_analysis_mode_changed(s, loading) ==
  LET is_time_avg == s.mode = "time_avg"
      a == Call(s, IF is_time_avg THEN "playback.set_enabled(False)"
                   ELSE "playback.set_enabled(True)")
      b == IF VIDEO_EXPORT_AVAILABLE
           THEN [a EXCEPT !.export_vid_btn = ~is_time_avg,
                          !.batch_export_btn = TRUE]
           ELSE a
  IN _trigger_auto_apply(b, loading)

\* _init_ui
_init_ui(s) ==
  LET a == IF ~VIDEO_EXPORT_AVAILABLE
           THEN [s EXCEPT !.export_vid_btn = FALSE, !.batch_export_btn = FALSE]
           ELSE s
      b == _on_vector_plot_type_changed(a, FALSE)
  IN _on_time_analysis_mode_changed(b, FALSE)

\* __init__, line 92
InitUi ==
  /\ phase = "new"
  /\ Commit([_init_ui(Cur) EXCEPT !.phase = "ui"], "_init_ui", [none |-> TRUE])

\* currentIndexChanged of time_analysis_mode_combo: the user, or a config
\* being loaded (loading), selects another mode.
ModeChanged ==
  /\ phase = "idle"
  /\ \E m \in Modes \ {mode}, loading \in BOOLEAN :
       Commit(_on_time_analysis_mode_changed([Cur EXCEPT !.mode = m], loading),
              "_on_time_analysis_mode_changed", [loading |-> loading])

\* --------------------------------------------------------- visualization
\* What config_handler.get_current_config() and get_frame_data answer.  The
\* time-average spin boxes have the maximum frame_count - 1 (line 234).
NoCfg == [enabled |-> FALSE, start |-> 0, end |-> 0, data |-> FALSE]

VizInputs(fc) ==
  IF fc = 0 THEN {NoCfg}
  ELSE {[enabled |-> FALSE, start |-> 0, end |-> 0, data |-> d] : d \in BOOLEAN}
       \cup {[enabled |-> TRUE, start |-> a, end |-> b, data |-> TRUE] :
               a \in 0..(fc - 1), b \in 0..(fc - 1)}

\* _update_frame_info
_update_frame_info(s) == Call(s, "frame_info_label.setText")

\* _load_frame(frame_index); data: get_frame_data returned a frame.
_load_frame(s, frame_index, data) ==
  IF ~(0 <= frame_index /\ frame_index < s.frame_count) THEN s
  ELSE LET a == Call(s, "get_frame_data")
       IN IF data THEN _update_frame_info(Call(a, "plot_widget.update_data"))
          ELSE a

\* InvalidRange with the equal frames let through.
InvalidRangeStrict(start, end) == start > end

\* The test of line 332 that rejects a time-average range.
InvalidRange(start, end) == start >= end

\* _apply_visualization_settings
_apply_visualization_settings(s, cfg) ==
  IF s.frame_count = 0 THEN s
  ELSE
    LET a == Call(s, "plot_widget.set_config")
    IN IF cfg.enabled
       THEN IF InvalidRange(cfg.start, cfg.end)
            THEN Call(a, "status:invalid_range")
            ELSE LET b == [Call(a, "get_time_averaged_data")
                             EXCEPT !.args.avg = <<cfg.start, cfg.end>>]
                     c == _update_frame_info(Call(b, "plot_widget.update_data"))
                 IN Call(c, "status:settings_updated")
       ELSE Call(_load_frame(a, current_frame_index, cfg.data),
                 "status:settings_updated")

\* _force_refresh_plot
_force_refresh_plot(s, cfg) == _apply_visualization_settings(s, cfg)

\* ------------------------------------------------------------ the project
\* DataManager.post_import_setup: with frames >= 0 the data manager reads a
\* store it has not read yet, which holds the imported columns and that
\* many frames; with frames = -1 it keeps what it knows.
post_import_setup(s, frames) ==
  LET a == Call(s, "post_import_setup")
  IN IF frames >= 0
     THEN [a EXCEPT !.variables = CsvColumns, !.frame_count = frames]
     ELSE a

\* _update_variables_table
_update_variables_table(s) == [s EXCEPT !.table = s.variables \ Unmanaged]

\* _load_project_data
_load_project_data(s, in) ==
  LET a == post_import_setup(Call(s, "_load_project_data"), in.frames)
  IN IF a.frame_count > 0
     THEN LET b == _update_variables_table(a)
              c == _force_refresh_plot(b, in.cfg)
          IN Call(c, "status:project_loaded")
     ELSE Call(Call(a, "status:project_load_failed"), "warning:empty")

\* The answers _load_project_data may be given after the store was created
\* or found (fresh), or when the data manager already knows it.
LoadInputs(s, fresh) ==
  { [frames |-> f, cfg |-> c] :
      f \in (IF fresh THEN 0..MaxFrames ELSE {-1}),
      c \in UNION {VizInputs(n) : n \in 0..MaxFrames} }

LoadInputsFor(s, fresh) ==
  { i \in LoadInputs(s, fresh) :
      i.cfg \in VizInputs(IF i.frames >= 0 THEN i.frames ELSE s.frame_count) }

NoLoad == [frames |-> -1, cfg |-> NoCfg]

\* _on_error that leaves the progress dialog open.
OnErrorKeepsDialog(s) ==
  Call(Call(Call(s, "_on_error"), "status:error"), "critical")

\* _on_error
_on_error(s) ==
  LET a == Call(s, "_on_error")
      b == IF a.import_dialog = "visible"
           THEN [Call(a, "import_dialog.accept") EXCEPT !.import_dialog = "closed"]
           ELSE a
  IN Call(Call(b, "status:error"), "critical")

\* _start_database_import: the worker is started and the modal dialog's
\* exec() runs the event loop until the dialog is closed.
_start_database_import(s) ==
  LET a == Call(s, "_start_database_import")
      b == [a EXCEPT !.import_dialog = "visible", !.import_worker = "running"]
      c == Call(Call(b, "import_worker.start"), "import_dialog.exec")
  IN [c EXCEPT !.phase = "importing"]

\* _on_import_finished
_on_import_finished(s, in) ==
  LET a == Call(s, "_on_import_finished")
      b == IF a.import_dialog # "none"
           THEN [Call(a, "import_dialog.accept") EXCEPT !.import_dialog = "closed"]
           ELSE a
  IN _load_project_data(Call(b, "information:import_done"), in.load)

\* DataManager.is_database_ready
is_database_ready(s) == s.db_file /\ s.zarr_dir

\* The import starts whatever the answer.
ImportAlways(reply) == TRUE

\* The test of line 207 on the answer to "create a new data store?".
ImportAccepted(reply) == reply = "Yes"

\* _initialize_project
_initialize_project(s, in) ==
  LET a == Call(Call(s, "_initialize_project"), "setup_project_directory")
  IN IF ~in.setup_ok THEN a
     ELSE IF is_database_ready(a) THEN _load_project_data(a, in.load)
     ELSE LET b == Call(a, "question:create_store")
          IN IF ImportAccepted(in.reply) THEN _start_database_import(b)
             ELSE Call(b, "status:cancelled")

\* The answers _initialize_project may be given in state s.
InitializeInputs(s) ==
  {[setup_ok |-> FALSE, reply |-> "-", load |-> NoLoad]}
  \cup (IF is_database_ready(s)
        THEN {[setup_ok |-> TRUE, reply |-> "-", load |-> l] :
                l \in LoadInputsFor(s, s.variables = {})}
        ELSE {[setup_ok |-> TRUE, reply |-> r, load |-> NoLoad] :
                r \in {"Yes", "No"}})

NoInitialize == [setup_ok |-> FALSE, reply |-> "-", load |-> NoLoad]

\* __init__, lines 93 to 95
Startup ==
  /\ phase = "ui"
  /\ \E in \in InitializeInputs(Cur) :
       LET r == _initialize_project(Cur, in)
       IN Commit([r EXCEPT !.phase = IF r.phase = "importing" THEN @ ELSE "idle"],
                 "_initialize_project", in)

\* redraw_debounce_timer.timeout (single shot)
RedrawTimeout ==
  /\ phase = "idle"
  /\ redraw_timer
  /\ \E cfg \in VizInputs(frame_count) :
       Commit(_apply_visualization_settings([Cur EXCEPT !.redraw_timer = FALSE], cfg),
              "_apply_visualization_settings", cfg)

\* data_manager.error_occurred, emitted by a call made on the GUI thread
DataManagerError ==
  /\ phase = "idle"
  /\ Commit(_on_error(Cur), "_on_error", [none |-> TRUE])

\* DataImportWorker.run ends well: the store exists and finished is queued.
WorkerFinished ==
  /\ import_worker = "running"
  /\ import_worker' = "finished"
  /\ db_file' = TRUE
  /\ zarr_dir' = TRUE
  /\ UNCHANGED << phase, VIDEO_EXPORT_AVAILABLE, mode, export_vid_btn,
                  batch_export_btn, config_is_dirty, redraw_timer, frame_count,
                  variables, table, project_dir, settings, timeseries_dialog,
                  profile_dialog, import_dialog, event, trace, args, handler, inp >>

\* DataImportWorker.run fails: error is queued.
WorkerError ==
  /\ import_worker = "running"
  /\ import_worker' = "error"
  /\ UNCHANGED << phase, VIDEO_EXPORT_AVAILABLE, mode, export_vid_btn,
                  batch_export_btn, config_is_dirty, redraw_timer, frame_count,
                  variables, table, db_file, zarr_dir, project_dir, settings,
                  timeseries_dialog, profile_dialog, import_dialog, event, trace,
                  args, handler, inp >>

\* The queued finished signal reaches _on_import_finished inside exec();
\* the accepted dialog ends exec() and with it the handler that opened it.
DeliverFinished ==
  /\ import_worker = "finished"
  /\ \E l \in LoadInputsFor(Cur, TRUE) :
       LET in == [load |-> l]
           r == _on_import_finished([Cur EXCEPT !.import_worker = "none"], in)
       IN Commit([r EXCEPT !.phase = IF r.import_dialog = "visible"
                                       THEN @ ELSE "idle"],
                 "_on_import_finished", in)

\* The queued error signal reaches _on_error inside exec().
DeliverError ==
  /\ import_worker = "error"
  /\ LET r == _on_error([Cur EXCEPT !.import_worker = "none"])
     IN Commit([r EXCEPT !.phase = IF r.import_dialog = "visible"
                                     THEN @ ELSE "idle"],
               "_on_error", [none |-> TRUE])

\* The except clause without its return.
DeletionFailedGoesOn(s, in) == _initialize_project(_on_error(s), in.init)

\* The except clause of line 437: the error is reported and the handler
\* returns.
DeletionFailed(s, in) == _on_error(s)

\* _force_reload_data; in.raises names the deletion that raises.
_force_reload_data(s, in) ==
  LET q == Call(Call(s, "_force_reload_data"), "question:reload")
  IN IF in.reply # "Yes" THEN q
     ELSE
       LET a == Call(Call(q, "stop_playback"), "reset_global_stats")
           b == IF a.db_file THEN Call(a, "os.remove") ELSE a
       IN IF a.db_file /\ in.raises = "os.remove" THEN DeletionFailed(b, in)
          ELSE
            LET c == [b EXCEPT !.db_file = FALSE]
                d == IF c.zarr_dir THEN Call(c, "shutil.rmtree") ELSE c
            IN IF c.zarr_dir /\ in.raises = "shutil.rmtree" THEN DeletionFailed(d, in)
               ELSE _initialize_project([d EXCEPT !.zarr_dir = FALSE], in.init)

ReloadInputs(s) ==
  {[reply |-> "Cancel", raises |-> "-", init |-> NoInitialize]}
  \cup {[reply |-> "Yes", raises |-> x, init |-> NoInitialize] :
          x \in (IF s.db_file THEN {"os.remove"} ELSE {})
                \cup (IF s.zarr_dir THEN {"shutil.rmtree"} ELSE {})}
  \cup {[reply |-> "Yes", raises |-> "-", init |-> n] :
          n \in InitializeInputs([s EXCEPT !.db_file = FALSE, !.zarr_dir = FALSE])}

\* reload_action.triggered
ForceReload ==
  /\ phase = "idle"
  /\ \E in \in ReloadInputs(Cur) :
       Commit(_force_reload_data(Cur, in), "_force_reload_data", in)

\* DataManager.clear_all
clear_all(s) == [Call(s, "clear_all") EXCEPT !.variables = {}, !.frame_count = 0]

\* _change_project_directory up to the call of _initialize_project;
\* in.store: the directory chosen holds a data store.
EnterDirectory(s, in) ==
  LET a == [s EXCEPT !.project_dir = in.new_dir,
                     !.db_file = in.store, !.zarr_dir = in.store]
  IN clear_all(Call(Call(a, "stop_playback"), "reset_global_stats"))

\* _change_project_directory; in.new_dir = "" when the file dialog is
\* cancelled.
_change_project_directory(s, in) ==
  LET a == Call(s, "_change_project_directory")
  IN IF in.new_dir # "" /\ in.new_dir # s.project_dir
     THEN _initialize_project(EnterDirectory(a, in), in.init)
     ELSE a

ChangeDirInputs(s) ==
  {[new_dir |-> d, store |-> FALSE, init |-> NoInitialize] :
     d \in {"", s.project_dir}}
  \cup UNION { {[new_dir |-> d, store |-> st, init |-> n] :
                  n \in InitializeInputs(
                          EnterDirectory(s, [new_dir |-> d, store |-> st]))} :
               d \in Dirs \ {s.project_dir}, st \in BOOLEAN }

\* open_data_dir_action.triggered, change_data_dir_btn.clicked
ChangeProjectDirectory ==
  /\ phase = "idle"
  /\ \E in \in ChangeDirInputs(Cur) :
       Commit(_change_project_directory(Cur, in), "_change_project_directory", in)

\* refresh_button.clicked
ForceRefresh ==
  /\ phase = "idle"
  /\ \E cfg \in VizInputs(frame_count) :
       Commit(_force_refresh_plot(Cur, cfg), "_force_refresh_plot", cfg)

\* ------------------------------------------------------- variables table
\* currentRow() < 0: no row of the table is selected.
NoRow == <<>>

\* QMessageBox.question: the button the user's choice stands for; "Enter"
\* is the dialog's default button.
Reply(choice, default) == IF choice = "Enter" THEN default ELSE choice

\* Yes as the default button.
DefaultButtonYes == "Yes"

\* The default button of the questions of _delete_variable and
\* _rename_variable.
DefaultButton == "Cancel"

\* DataManager.delete_variable
delete_variable(s, name) ==
  [Call(s, "delete_variable") EXCEPT !.args.delete = name]

\* _delete_variable
_delete_variable(s, in) ==
  LET a == Call(s, "_delete_variable")
  IN IF in.row = NoRow THEN Call(a, "warning:no_selection")
     ELSE
       LET var_to_delete == in.row
           b == Call(a, "question:delete")
       IN IF Reply(in.choice, DefaultButton) # "Yes" THEN b
          ELSE
            LET c == delete_variable(Call(b, "wait_box.show"), var_to_delete)
            IN IF in.raises
               THEN Call(Call(c, "wait_box.accept"), "critical:delete_failed")
               ELSE LET d == [c EXCEPT !.variables = @ \ {var_to_delete}]
                        e == Call(Call(d, "wait_box.accept"), "information:deleted")
                    IN _load_project_data(e, in.load)

Choices == {"Yes", "Cancel", "Enter"}

DeleteInputs(s) ==
  {[row |-> NoRow, choice |-> "-", raises |-> FALSE, load |-> NoLoad]}
  \cup {[row |-> r, choice |-> c, raises |-> FALSE, load |-> NoLoad] :
          r \in s.table, c \in Choices \ {"Yes"}}
  \cup {[row |-> r, choice |-> "Yes", raises |-> TRUE, load |-> NoLoad] :
          r \in s.table}
  \cup {[row |-> r, choice |-> "Yes", raises |-> FALSE, load |-> l] :
          r \in s.table \cap s.variables, l \in LoadInputsFor(s, FALSE)}

\* delete_variable_btn.clicked
DeleteVariable ==
  /\ phase = "idle"
  /\ \E in \in DeleteInputs(Cur) :
       Commit(_delete_variable(Cur, in), "_delete_variable", in)

\* DataManager.rename_variable
rename_variable(s, old, new) ==
  [Call(s, "rename_variable") EXCEPT !.args.rename = <<old, new>>]

\* The test of line 505 on the text of the input dialog.
Renamed(ok, text, old_name) == ok /\ text # <<>> /\ text # old_name

\* _rename_variable
_rename_variable(s, in) ==
  LET a == Call(s, "_rename_variable")
  IN IF in.row = NoRow THEN Call(a, "warning:no_selection")
     ELSE
       LET old_name == in.row
           b == Call(a, "QInputDialog.getText")
       IN IF ~Renamed(in.ok, in.text, old_name) THEN b
          ELSE
            LET new_name == strip(in.text)
            IN IF ~isidentifier(new_name) THEN Call(b, "warning:invalid_name")
               ELSE IF new_name \in b.variables THEN Call(b, "warning:name_conflict")
               ELSE
                 LET c == Call(b, "question:rename")
                 IN IF Reply(in.choice, DefaultButton) # "Yes" THEN c
                    ELSE
                      LET d == rename_variable(Call(c, "wait_box.show"),
                                               old_name, new_name)
                      IN IF in.raises
                         THEN Call(Call(d, "wait_box.accept"),
                                   "critical:rename_failed")
                         ELSE
                           LET e == [d EXCEPT !.variables =
                                       (@ \ {old_name}) \cup {new_name}]
                               f == Call(Call(e, "wait_box.accept"),
                                         "information:renamed")
                           IN _load_project_data(f, in.load)

\* The rename dialog is answered only when a row is selected, the question
\* only when the name passed the checks; rename_variable succeeds only on
\* a column the store has.
AskedToConfirm(s, row, ok, text) ==
  /\ Renamed(ok, text, row)
  /\ isidentifier(strip(text))
  /\ strip(text) \notin s.variables

RenameInputsOf(s, r) ==
  {[row |-> r, ok |-> FALSE, text |-> <<>>, choice |-> "-",
    raises |-> FALSE, load |-> NoLoad]}
  \cup {[row |-> r, ok |-> TRUE, text |-> x, choice |-> "-",
         raises |-> FALSE, load |-> NoLoad] :
          x \in {y \in InputTexts : ~AskedToConfirm(s, r, TRUE, y)}}
  \cup {[row |-> r, ok |-> TRUE, text |-> x, choice |-> c,
         raises |-> FALSE, load |-> NoLoad] :
          x \in {y \in InputTexts : AskedToConfirm(s, r, TRUE, y)},
          c \in Choices \ {"Yes"}}
  \cup {[row |-> r, ok |-> TRUE, text |-> x, choice |-> "Yes",
         raises |-> TRUE, load |-> NoLoad] :
          x \in {y \in InputTexts : AskedToConfirm(s, r, TRUE, y)}}
  \cup {[row |-> r, ok |-> TRUE, text |-> x, choice |-> "Yes",
         raises |-> FALSE, load |-> l] :
          x \in {y \in InputTexts : AskedToConfirm(s, r, TRUE, y) /\ r \in s.variables},
          l \in LoadInputsFor(s, FALSE)}

RenameInputs(s) ==
  {[row |-> NoRow, ok |-> FALSE, text |-> <<>>, choice |-> "-",
    raises |-> FALSE, load |-> NoLoad]}
  \cup UNION {RenameInputsOf(s, r) : r \in s.table}

\* rename_variable_btn.clicked
RenameVariable ==
  /\ phase = "idle"
  /\ \E in \in RenameInputs(Cur) :
       Commit(_rename_variable(Cur, in), "_rename_variable", in)

\* ----------------------------------------------------------------- dialogs
\* _on_timeseries_point_picked
_on_timeseries_point_picked(s) ==
  LET a == IF s.timeseries_dialog = "visible"
           THEN Call(s, "timeseries_dialog.close") ELSE s
  IN [Call(a, "timeseries_dialog.show") EXCEPT !.timeseries_dialog = "visible"]

\* plot_widget.timeseries_point_picked
TimeseriesPointPicked ==
  /\ phase = "idle"
  /\ Commit(_on_timeseries_point_picked(Cur), "_on_timeseries_point_picked",
            [none |-> TRUE])

\* _on_profile_line_defined; results: plot_widget.interpolated_results
_on_profile_line_defined(s, results) ==
  IF ~results THEN Call(s, "warning:no_data")
  ELSE LET a == IF s.profile_dialog = "visible"
                THEN Call(s, "profile_dialog.close") ELSE s
       IN [Call(a, "profile_dialog.show") EXCEPT !.profile_dialog = "visible"]

\* plot_widget.profile_line_defined
ProfileLineDefined ==
  /\ phase = "idle"
  /\ \E results \in BOOLEAN :
       Commit(_on_profile_line_defined(Cur, results), "_on_profile_line_defined",
              [results |-> results])

\* The user closes the time series dialog; the window keeps the object.
TimeseriesDialogClosed ==
  /\ phase = "idle"
  /\ timeseries_dialog = "visible"
  /\ Commit([Cur EXCEPT !.timeseries_dialog = "closed"], "TimeSeriesDialog.close",
            [none |-> TRUE])

\* ConfigHandler saves or loads a configuration: nothing is unsaved.
ConfigSaved ==
  /\ phase = "idle"
  /\ config_is_dirty
  /\ Commit([Cur EXCEPT !.config_is_dirty = FALSE], "save_current_config",
            [none |-> TRUE])

\* ------------------------------------------------------------------- close
\* _save_settings
_save_settings(s) ==
  [Call(s, "_save_settings") EXCEPT !.settings = s.project_dir]

\* Cancel does not stop the close.
CloseCancelledNever(s, in) == FALSE

\* The test of line 462: the user answers Cancel to "save before exit?".
CloseCancelled(s, in) == s.config_is_dirty /\ in.reply = "Cancel"

\* The configuration is saved unless the user cancels.
SaveChosenOrDiscard(s, in) == s.config_is_dirty /\ in.reply # "Cancel"

\* The test of line 461: the user answers Save.
SaveChosen(s, in) == s.config_is_dirty /\ in.reply = "Save"

\* closeEvent; in.export_ok: export_handler.on_main_window_close(),
\* in.thread_pool: plot_widget.thread_pool is set.
closeEvent(s, in) ==
  LET a == Call(Call(s, "closeEvent"), "on_main_window_close")
  IN IF ~in.export_ok THEN [a EXCEPT !.event = "ignored"]
     ELSE
       LET b == IF a.config_is_dirty THEN Call(a, "question:unsaved") ELSE a
           c == IF SaveChosen(a, in) THEN Call(b, "save_current_config") ELSE b
       IN IF CloseCancelled(a, in)
          THEN [c EXCEPT !.event = "ignored"]
          ELSE
            LET d == Call(_save_settings(c), "stop_playback")
                e == IF in.thread_pool
                     THEN Call(Call(d, "thread_pool.clear"), "thread_pool.waitForDone")
                     ELSE d
                f == IF e.timeseries_dialog # "none"
                     THEN [Call(e, "timeseries_dialog.close")
                             EXCEPT !.timeseries_dialog = "closed"]
                     ELSE e
                g == IF f.profile_dialog # "none"
                     THEN [Call(f, "profile_dialog.close")
                             EXCEPT !.profile_dialog = "closed"]
                     ELSE f
            IN [Call(g, "super.closeEvent") EXCEPT !.event = "accepted"]

CloseInputs(s) ==
  {[export_ok |-> FALSE, reply |-> "-", thread_pool |-> FALSE]}
  \cup (IF s.config_is_dirty
        THEN {[export_ok |-> TRUE, reply |-> "Cancel", thread_pool |-> FALSE]}
             \cup {[export_ok |-> TRUE, reply |-> r, thread_pool |-> p] :
                     r \in {"Save", "Discard"}, p \in BOOLEAN}
        ELSE {[export_ok |-> TRUE, reply |-> "-", thread_pool |-> p] :
                p \in BOOLEAN})

\* The window is asked to close (exit_action, the title bar).
CloseEvent ==
  /\ phase = "idle"
  /\ \E in \in CloseInputs(Cur) :
       LET r == closeEvent(Cur, in)
       IN Commit([r EXCEPT !.phase = IF r.event = "accepted" THEN "closed" ELSE @],
                 "closeEvent", in)

\* __init__
Construct ==
  \/ InitUi
  \/ Startup

\* The import worker and the delivery of its signals.
Import ==
  \/ WorkerFinished
  \/ WorkerError
  \/ DeliverFinished
  \/ DeliverError

\* The user works with the window: modes, redraws, dialogs, configuration,
\* closing.
WindowNext ==
  \/ Construct
  \/ Import
  \/ ModeChanged
  \/ RedrawTimeout
  \/ ForceRefresh
  \/ TimeseriesPointPicked
  \/ ProfileLineDefined
  \/ TimeseriesDialogClosed
  \/ ConfigSaved
  \/ CloseEvent

\* The user manages the project's data: reload, another directory, import,
\* the variables of the store.
ProjectNext ==
  \/ Construct
  \/ Import
  \/ DataManagerError
  \/ ForceReload
  \/ ChangeProjectDirectory
  \/ DeleteVariable
  \/ RenameVariable

Next ==
  \/ WindowNext
  \/ ProjectNext

Spec == Init /\ [][Next]_vars

WindowSpec == Init /\ [][WindowNext]_vars

ProjectSpec == Init /\ [][ProjectNext]_vars

\* A queued signal of the worker is delivered by the event loop.
ProjectLive ==
  ProjectSpec /\ WF_vars(DeliverFinished) /\ WF_vars(DeliverError)

\* -------------------------------------------------------------- properties
CloseClosingCalls ==
  { "save_current_config", "_save_settings", "stop_playback",
    "thread_pool.clear", "thread_pool.waitForDone", "timeseries_dialog.close",
    "profile_dialog.close", "super.closeEvent" }

\* C1: when on_main_window_close() returns False, or the config is dirty
\* and the user answers Cancel, closeEvent ignores the event and does
\* nothing else: no save of the config or the settings, playback not
\* stopped, thread pool not cleared, no dialog closed, super().closeEvent
\* not reached, the window stays open.
C1_VetoedCloseDoesNothing ==
  (/\ handler = "closeEvent"
   /\ (~inp.export_ok \/ (config_is_dirty /\ inp.reply = "Cancel"))) =>
     /\ event = "ignored"
     /\ phase = "idle"
     /\ \A op \in CloseClosingCalls : ~Called(op)
     /\ trace = IF inp.export_ok
                THEN <<"closeEvent", "on_main_window_close", "question:unsaved">>
                ELSE <<"closeEvent", "on_main_window_close">>
     /\ settings = ""

\* C1: the user cancels the close of a window with unsaved changes and an
\* open time series dialog.
C1_Witness ==
  /\ handler = "closeEvent"
  /\ inp.export_ok
  /\ inp.reply = "Cancel"
  /\ config_is_dirty
  /\ event = "ignored"
  /\ timeseries_dialog = "visible"

\* The calls of a close that goes through, in program order.
ExpectedCloseTrace ==
  <<"closeEvent", "on_main_window_close">>
  \o (IF config_is_dirty THEN <<"question:unsaved">> ELSE <<>>)
  \o (IF config_is_dirty /\ inp.reply = "Save"
      THEN <<"save_current_config">> ELSE <<>>)
  \o <<"_save_settings", "stop_playback">>
  \o (IF inp.thread_pool
      THEN <<"thread_pool.clear", "thread_pool.waitForDone">> ELSE <<>>)
  \o (IF timeseries_dialog # "none" THEN <<"timeseries_dialog.close">> ELSE <<>>)
  \o (IF profile_dialog # "none" THEN <<"profile_dialog.close">> ELSE <<>>)
  \o <<"super.closeEvent">>

\* C2: a close that is not vetoed saves the config iff it is dirty and the
\* user chose Save; then the settings are saved, playback is stopped, the
\* thread pool (when the plot widget has one) is cleared and waited for,
\* the dialogs that exist are closed, and last the event goes to
\* super().closeEvent.
C2_CloseOrder ==
  (/\ handler = "closeEvent"
   /\ inp.export_ok
   /\ ~(config_is_dirty /\ inp.reply = "Cancel")) =>
     /\ event = "accepted"
     /\ phase = "closed"
     /\ Called("save_current_config") <=> (config_is_dirty /\ inp.reply = "Save")
     /\ trace = ExpectedCloseTrace
     /\ settings = project_dir
     /\ timeseries_dialog \in {"none", "closed"}
     /\ profile_dialog \in {"none", "closed"}

\* C2: the user chooses Save, and both dialogs and the thread pool exist.
C2_Witness ==
  /\ handler = "closeEvent"
  /\ inp.reply = "Save"
  /\ inp.thread_pool
  /\ event = "accepted"
  /\ Called("save_current_config")
  /\ Called("timeseries_dialog.close")
  /\ Called("profile_dialog.close")
  /\ Pos("thread_pool.waitForDone") < Pos("timeseries_dialog.close")

Deletions == {"os.remove", "shutil.rmtree"}

\* C3: _force_reload_data stops, resets and deletes only after Yes; on Yes
\* playback is stopped and the statistics are reset before any deletion; a
\* deletion that raises is reported through _on_error and
\* _initialize_project is not called; _initialize_project is called only
\* after the deletions went through, when neither file is left.
C3_ForceReload ==
  handler = "_force_reload_data" =>
     /\ inp.reply # "Yes" => trace = <<"_force_reload_data", "question:reload">>
     /\ inp.reply = "Yes" =>
          /\ Pos("stop_playback") = 3
          /\ Pos("reset_global_stats") = 4
          /\ \A op \in Deletions : Called(op) => Pos(op) > 4
     /\ inp.raises # "-" =>
          /\ Called(inp.raises)
          /\ Pos("_on_error") = Pos(inp.raises) + 1
          /\ ~Called("_initialize_project")
          /\ ~Called("_load_project_data")
          /\ ~Called("_start_database_import")
     /\ Called("_initialize_project") =>
          /\ inp.reply = "Yes"
          /\ inp.raises = "-"
          /\ ~Called("_on_error")
          /\ \A op \in Deletions : Pos(op) < Pos("_initialize_project")
          /\ import_worker # "finished" => ~db_file /\ ~zarr_dir

\* C3: the metadata file is removed and the removal of the array store
\* raises.
C3_Witness ==
  /\ handler = "_force_reload_data"
  /\ inp.raises = "shutil.rmtree"
  /\ Called("os.remove")
  /\ Called("_on_error")
  /\ ~db_file
  /\ zarr_dir

\* The answers the _initialize_project of the last handler was given.
InitializeAnswers == IF handler = "_initialize_project" THEN inp ELSE inp.init

\* C4: _initialize_project loads and imports nothing when
\* setup_project_directory fails; loads the project without a question and
\* without an import when the store is ready; and when it is not, starts an
\* import only on Yes, and on No neither imports nor loads.
C4_InitializeProject ==
  Called("_initialize_project") =>
     LET in == InitializeAnswers
     IN /\ ~in.setup_ok =>
             /\ ~Called("_load_project_data")
             /\ ~Called("_start_database_import")
             /\ ~Called("question:create_store")
        /\ Called("_load_project_data") =>
             /\ in.setup_ok
             /\ db_file /\ zarr_dir
             /\ ~Called("question:create_store")
             /\ ~Called("_start_database_import")
        /\ (in.setup_ok /\ ~Called("_load_project_data")) =>
             /\ Called("question:create_store")
             /\ import_worker # "finished" => ~(db_file /\ zarr_dir)
        /\ Called("_start_database_import") =>
             /\ in.reply = "Yes"
             /\ Pos("question:create_store") < Pos("_start_database_import")
        /\ in.reply = "Yes" => Called("_start_database_import")
        /\ in.reply = "No" =>
             /\ ~Called("_start_database_import")
             /\ ~Called("_load_project_data")
             /\ import_worker = "none"

\* C4: the user changes to a directory without a store and answers No.
C4_Witness ==
  /\ handler = "_change_project_directory"
  /\ Called("_initialize_project")
  /\ inp.init.reply = "No"
  /\ ~Called("_start_database_import")
  /\ phase = "idle"

\* C5: once the import is started the progress dialog is open and the
\* worker runs; a finished or error signal of the worker always leads to
\* the progress dialog being closed; _on_import_finished loads the project
\* data, and no handler that goes through _on_error does.
C5_ImportLifecycle ==
  /\ [](import_worker = "running" => import_dialog = "visible" /\ phase = "importing")
  /\ (import_worker \in {"finished", "error"}) ~> (import_dialog # "visible")
  /\ [](handler = "_on_import_finished" =>
          /\ Pos("import_dialog.accept") = 2
          /\ Called("_load_project_data")
          /\ ~Called("_on_error"))
  /\ [](Called("_on_error") => ~Called("_load_project_data"))

\* C5: the worker's error signal was delivered and closed the open dialog.
C5_Witness ==
  /\ handler = "_on_error"
  /\ Called("import_dialog.accept")
  /\ import_dialog = "closed"
  /\ phase = "idle"

\* C6: rename_variable(old, new) is called only for a selected row, an
\* accepted dialog, a stripped name that is non-empty, an identifier,
\* another name than the old one and not a variable of the store, and a
\* Yes; in every other case the project is not reloaded.
C6_RenameGuards ==
  handler = "_rename_variable" =>
     /\ Called("rename_variable") =>
          LET old == args.rename[1]
              new == args.rename[2]
          IN /\ inp.row # NoRow
             /\ old = inp.row
             /\ inp.ok
             /\ new = strip(inp.text)
             /\ new # <<>>
             /\ isidentifier(new)
             /\ new # old
             /\ inp.raises => new \notin variables
             /\ inp.choice = "Yes"
     /\ ~Called("rename_variable") => ~Called("_load_project_data")

\* C7: delete_variable is called only for a selected row and an explicit
\* Yes (the default button is Cancel); when it succeeds the project data is
\* reloaded, and when it raises the wait box is closed, the error is shown
\* and the project data is not reloaded.
C7_DeleteVariable ==
  handler = "_delete_variable" =>
     /\ Called("delete_variable") =>
          /\ inp.row # NoRow
          /\ inp.choice = "Yes"
          /\ args.delete = inp.row
          /\ Pos("question:delete") < Pos("delete_variable")
     /\ (Called("delete_variable") /\ ~inp.raises) =>
          /\ args.delete \notin variables
          /\ Pos("_load_project_data") > Pos("delete_variable")
     /\ (Called("delete_variable") /\ inp.raises) =>
          /\ Pos("wait_box.accept") > Pos("delete_variable")
          /\ Pos("critical:delete_failed") > Pos("wait_box.accept")
          /\ ~Called("_load_project_data")
     /\ ~Called("delete_variable") => ~Called("_load_project_data")

\* C7: delete_variable raised.
C7_Witness ==
  /\ handler = "_delete_variable"
  /\ Called("delete_variable")
  /\ inp.raises
  /\ Called("critical:delete_failed")

\* C8: in time-average mode a range with start_frame >= end_frame gets the
\* 'invalid range' status and nothing else: no get_time_averaged_data, no
\* update_data, no frame info, no 'settings updated' status; and
\* get_time_averaged_data is only ever called with start < end.
C8_TimeAverageRange ==
  /\ Called("get_time_averaged_data") =>
       /\ Len(args.avg) = 2
       /\ args.avg[1] < args.avg[2]
  /\ (/\ handler \in {"_apply_visualization_settings", "_force_refresh_plot"}
      /\ frame_count > 0
      /\ inp.enabled
      /\ inp.start >= inp.end) =>
       /\ trace = <<"plot_widget.set_config", "status:invalid_range">>
       /\ args.avg = <<>>
  /\ (/\ handler \in {"_apply_visualization_settings", "_force_refresh_plot"}
      /\ frame_count > 0
      /\ inp.enabled
      /\ inp.start < inp.end) =>
       /\ Called("get_time_averaged_data")
       /\ args.avg = <<inp.start, inp.end>>

\* C8: the debounce timer applies a time average over one frame.
C8_Witness ==
  /\ handler = "_apply_visualization_settings"
  /\ frame_count > 0
  /\ inp.enabled
  /\ inp.start = inp.end
  /\ Called("status:invalid_range")

\* C9: after _init_ui and after every change of the time-analysis mode,
\* export_vid_btn is enabled iff VIDEO_EXPORT_AVAILABLE holds and the mode
\* is not the time-average mode; without VIDEO_EXPORT_AVAILABLE both
\* export_vid_btn and batch_export_btn are disabled.
C9_VideoExportButton ==
  phase # "new" =>
     /\ export_vid_btn <=> (VIDEO_EXPORT_AVAILABLE /\ mode # "time_avg")
     /\ ~VIDEO_EXPORT_AVAILABLE => (~export_vid_btn /\ ~batch_export_btn)

\* C9: the user switched to the time-average mode with a video backend
\* installed.
C9_Witness ==
  /\ handler = "_on_time_analysis_mode_changed"
  /\ VIDEO_EXPORT_AVAILABLE
  /\ mode = "time_avg"
  /\ ~export_vid_btn
  /\ batch_export_btn
====
